---- MODULE Spec2Model ----
(***************************************************************************)
(* Model of xgal.deltag: binning a catalog into pixel maps                 *)
(* (make_healpix_map), counts to overdensity (count2density), Poisson      *)
(* sampling of a density map (density2count) and the composite             *)
(* overdensity.  Each function is one action that consumes the call's      *)
(* arguments (args) and leaves its return value or exception (ret), the    *)
(* locals it held when it ended (frame) and what it printed (stdout).      *)
(*                                                                         *)
(* numpy float64 values are modelled as exact rationals <<n, d>> with      *)
(* d > 0, extended with the IEEE specials NaN = <<0,0>>, +inf = <<1,0>>    *)
(* and -inf = <<-1,0>>; rounding and the sign of zero are not modelled.    *)
(* Python indices are 0-based; element p of an array is data[p + 1].       *)
(***************************************************************************)
EXTENDS Integers, Sequences, FiniteSets, TLC

VARIABLES pc, args, ret, frame, stdout, prev

vars == <<pc, args, ret, frame, stdout, prev>>

(***************************************************************************)
(* Bounds of the model.                                                    *)
(***************************************************************************)
\* pixels of the stand-in pixelization at nside = 1
NPix == 3
\* objects in a catalog
MaxObj == 2
\* length of the maps given to count2density
MaxLen == 3
\* length of the maps given to density2count
MaxMap == 3
\* largest value one Poisson draw returns in the model
MaxDraw == 1

(***************************************************************************)
(* float64 arithmetic                                                      *)
(***************************************************************************)
Abs(n) == IF n < 0 THEN -n ELSE n

RECURSIVE GCD(_, _)
GCD(a, b) == IF b = 0 THEN a ELSE GCD(b, a % b)

Rat(n, d) ==
    LET g == GCD(Abs(n), Abs(d))
        s == IF d < 0 THEN -1 ELSE 1
    IN  <<(s * n) \div g, (s * d) \div g>>

F(n) == <<n, 1>>
NaN == <<0, 0>>
PosInf == <<1, 0>>
NegInf == <<-1, 0>>

IsNaN(a) == a[2] = 0 /\ a[1] = 0
IsInf(a) == a[2] = 0 /\ a[1] # 0
IsFinite(a) == a[2] # 0
Sign(a) == IF a[1] > 0 THEN 1 ELSE IF a[1] < 0 THEN -1 ELSE 0

FAdd(a, b) ==
    IF IsNaN(a) \/ IsNaN(b) THEN NaN
    ELSE IF IsInf(a) THEN (IF IsInf(b) /\ b[1] # a[1] THEN NaN ELSE a)
    ELSE IF IsInf(b) THEN b
    ELSE Rat(a[1] * b[2] + b[1] * a[2], a[2] * b[2])

FNeg(a) == <<-a[1], a[2]>>

FSub(a, b) == FAdd(a, FNeg(b))

FMul(a, b) ==
    IF IsNaN(a) \/ IsNaN(b) THEN NaN
    ELSE IF IsInf(a) \/ IsInf(b)
         THEN (IF Sign(a) * Sign(b) = 0 THEN NaN ELSE <<Sign(a) * Sign(b), 0>>)
    ELSE Rat(a[1] * b[1], a[2] * b[2])

FDiv(a, b) ==
    IF IsNaN(a) \/ IsNaN(b) THEN NaN
    ELSE IF IsInf(a)
         THEN (IF IsInf(b) THEN NaN
               ELSE <<(IF Sign(b) < 0 THEN -a[1] ELSE a[1]), 0>>)
    ELSE IF IsInf(b) THEN F(0)
    ELSE IF b[1] = 0 THEN (IF a[1] = 0 THEN NaN ELSE <<Sign(a), 0>>)
    ELSE Rat(a[1] * b[2], a[2] * b[1])

FLt(a, b) ==
    /\ ~IsNaN(a)
    /\ ~IsNaN(b)
    /\ IF IsFinite(a) /\ IsFinite(b) THEN a[1] * b[2] < b[1] * a[2]
       ELSE IF IsInf(a) /\ IsInf(b) THEN a[1] < b[1]
       ELSE IF IsInf(a) THEN a[1] < 0
       ELSE b[1] > 0

FGt(a, b) == FLt(b, a)

RECURSIVE FSum(_)
FSum(s) == IF s = <<>> THEN F(0) ELSE FAdd(FSum(SubSeq(s, 1, Len(s) - 1)), s[Len(s)])

(***************************************************************************)
(* numpy arrays: [dtype, shape, data]; a 2-D array's data is its rows.     *)
(***************************************************************************)
None == [dtype |-> "NoneType"]
IsNone(a) == a.dtype = "NoneType"

Arr1(dtype, data) == [dtype |-> dtype, shape |-> <<Len(data)>>, data |-> data]
Arr2(dtype, rows) ==
    [dtype |-> dtype, shape |-> <<Len(rows), Len(rows[1])>>, data |-> rows]

Raise(e, m) == [exc |-> e, msg |-> m]
Return(v) == [exc |-> "none", value |-> v]

atleast_2d(a) ==
    IF Len(a.shape) = 1
    THEN [dtype |-> a.dtype, shape |-> <<1, a.shape[1]>>, data |-> <<a.data>>]
    ELSE a

RECURSIVE Concat(_)
Concat(rows) == IF rows = <<>> THEN <<>> ELSE rows[1] \o Concat(Tail(rows))

Flat(a) == IF Len(a.shape) = 1 THEN a.data ELSE Concat(a.data)

ones_like(a) ==
    [dtype |-> a.dtype, shape |-> a.shape,
     data |-> [i \in 1..a.shape[1] |-> [j \in 1..a.shape[2] |-> F(1)]]]

zeros(n) == [p \in 1..n |-> F(0)]

\* element-wise truth value of a mask array: astype(bool)
astype_bool(m) ==
    IF m.dtype = "bool" THEN m.data
    ELSE IF m.dtype = "int" THEN [p \in 1..Len(m.data) |-> m.data[p] # 0]
    ELSE [p \in 1..Len(m.data) |-> m.data[p][1] # 0]

\* astype(float) of a mask array or of a sequence of booleans
bool_as_float(b) == [p \in 1..Len(b) |-> IF b[p] THEN F(1) ELSE F(0)]

astype_float(m) ==
    IF m.dtype = "bool" THEN bool_as_float(m.data)
    ELSE IF m.dtype = "int" THEN [p \in 1..Len(m.data) |-> F(m.data[p])]
    ELSE m.data

\* np.add.at(arr, ipix, vals): unbuffered scatter-add, one term per object
RECURSIVE add_at(_, _, _)
add_at(arr, ipix, vals) ==
    IF ipix = <<>> THEN arr
    ELSE LET n == Len(ipix)
             before == add_at(arr, SubSeq(ipix, 1, n - 1), SubSeq(vals, 1, n - 1))
         IN  [before EXCEPT ![ipix[n] + 1] = FAdd(@, vals[n])]

\* arr[sel]: the elements of arr where the boolean sequence sel is true
RECURSIVE Select(_, _)
Select(arr, sel) ==
    IF arr = <<>> THEN <<>>
    ELSE LET n == Len(arr)
             rest == Select(SubSeq(arr, 1, n - 1), SubSeq(sel, 1, n - 1))
         IN  IF sel[n] THEN Append(rest, arr[n]) ELSE rest

(***************************************************************************)
(* The pixelization (healpy) is outside the repository.  The stand-in has  *)
(* NPix * nside^2 equal wedges in longitude; what the binning relies on is *)
(* only that every position gets one index in 0 .. npix - 1.               *)
(***************************************************************************)
UNSEEN == <<-1637500000, 1>>
Pi == Rat(22, 7)

nside2npix(nside) == NPix * nside * nside

ang2pix(nside, dec, ra) == ((ra % 360) * nside2npix(nside)) \div 360

nside2pixarea(npix, degrees) ==
    IF degrees
    THEN FDiv(F(4 * 180 * 180), FMul(Pi, F(npix)))
    ELSE FDiv(FMul(F(4), Pi), F(npix))

(***************************************************************************)
(* make_healpix_map                                                        *)
(***************************************************************************)
NoFrame == [func |-> "none"]

\* lines 72-79: count = zeros(npix); np.add.at(count, ipix, 1.)
count_objects_buffered(npix, ipix) ==
    [p \in 1..npix |-> IF \E i \in 1..Len(ipix) : ipix[i] + 1 = p THEN F(1) ELSE F(0)]

count_objects(npix, ipix) ==
    add_at(zeros(npix), ipix, [i \in 1..Len(ipix) |-> F(1)])

\* lines 82-85: the mask used
derive_bool_mask(mask, raw) ==
    IF IsNone(mask) THEN [p \in 1..Len(raw) |-> FGt(raw[p], F(0))]
    ELSE astype_bool(mask)

\* lines 88 and 101: arr[np.logical_not(bool_mask)] = x
fill_outside_skipped(arr, bool_mask, x) == arr

fill_outside(arr, bool_mask, x) ==
    [p \in 1..Len(arr) |-> IF bool_mask[p] THEN arr[p] ELSE x]

\* line 100: outmap[bool_mask] /= sum_w[bool_mask]
divide_in_mask_skipped(outmap, sum_w, bool_mask) == outmap

divide_in_mask(outmap, sum_w, bool_mask) ==
    [p \in 1..Len(outmap) |-> IF bool_mask[p] THEN FDiv(outmap[p], sum_w[p]) ELSE outmap[p]]

\* lines 95-101: the map of quantity row i
quantity_map(npix, ipix, qrow, wrow, bool_mask, x) ==
    LET sum_w == add_at(zeros(npix), ipix, wrow)
        outmap == add_at(zeros(npix), ipix,
                         [j \in 1..Len(ipix) |-> FMul(qrow[j], wrow[j])])
    IN  fill_outside(divide_in_mask(outmap, sum_w, bool_mask), bool_mask, x)

\* line 112: np.sum(count[bool_mask])
count_tot_in_mask(count, bool_mask) == FSum(Select(count, bool_mask))

\* lines 110-117
extra_statistics(nside, ipix, count, bool_mask) ==
    LET tot == count_tot_in_mask(count, bool_mask)
        per_pixel == FDiv(FMul(tot, F(1)),
                          F(Cardinality({p \in 1..Len(bool_mask) : bool_mask[p]})))
        per_sqdegree == FDiv(per_pixel, nside2pixarea(nside2npix(nside), TRUE))
    IN  [count_tot_in_mask |-> tot,
         count_per_pixel_in_mask |-> per_pixel,
         count_per_steradian_in_mask |->
             FDiv(per_pixel, nside2pixarea(nside2npix(nside), FALSE)),
         count_per_sqdegree_in_mask |-> per_sqdegree,
         count_per_sqarcmin_in_mask |-> FDiv(per_sqdegree, F(60 * 60)),
         ipix_masked |-> [data |-> ipix,
                          mask |-> [i \in 1..Len(ipix) |-> bool_mask[ipix[i] + 1]]]]

\* lines 14-121; the result is [ret, frame]
make_healpix_map(ra, dec, quantity, nside, mask, weight, fill_UNSEEN, return_extra) ==
    LET q2 == IF IsNone(quantity) THEN None ELSE atleast_2d(quantity)
        w2 == IF IsNone(quantity) THEN None
              ELSE IF IsNone(weight) THEN ones_like(q2) ELSE atleast_2d(weight)
        npix == nside2npix(nside)
        x == IF fill_UNSEEN THEN UNSEEN ELSE F(0)
        ipix == [i \in 1..Len(ra.data) |-> ang2pix(nside, dec.data[i], ra.data[i])]
        raw == count_objects(npix, ipix)
        bool_mask == derive_bool_mask(mask, raw)
        count == fill_outside(raw, bool_mask, x)
        outmaps == IF IsNone(quantity) THEN <<>>
                   ELSE [i \in 1..q2.shape[1] |->
                            quantity_map(npix, ipix, q2.data[i], w2.data[i], bool_mask, x)]
        returned_mask == IF IsNone(mask) THEN Arr1("float", bool_as_float(bool_mask))
                         ELSE mask
        fail(m) == [ret |-> Raise("AssertionError", m), frame |-> NoFrame]
    IN  IF ~IsNone(quantity) /\ ~IsNone(weight) /\ q2.shape # weight.shape
        THEN fail("quantity and weight must have the same shape")
        ELSE IF ~IsNone(quantity) /\ ~IsNone(weight)
                /\ \E k \in 1..Len(Flat(weight)) : ~FGt(Flat(weight)[k], F(0))
        THEN fail("weight is not strictly positive")
        ELSE IF ~IsNone(quantity) /\ q2.shape[2] # w2.shape[2]
        THEN fail("quantity/weight arrays don't have the same length")
        ELSE IF ~IsNone(quantity) /\ Len(ra.data) # Len(dec.data)
        THEN fail("ra/dec arrays don't have the same length")
        ELSE IF ~IsNone(mask) /\ Len(mask.data) # npix
        THEN fail("mask array does not have the right length")
        ELSE IF Len(ra.data) # Len(dec.data)
        THEN [ret |-> Raise("ValueError", "operands could not be broadcast together"),
              frame |-> NoFrame]
        ELSE IF IsNone(mask) /\ \E p \in 1..npix : bool_mask[p] /\ ~FGt(count[p], F(0))
        THEN fail("count[bool_mask] is not positive on the provided mask !")
        ELSE IF ~IsNone(quantity) /\ q2.shape[2] # Len(ipix)
        THEN [ret |-> Raise("ValueError", "shape mismatch"), frame |-> NoFrame]
        ELSE [ret |-> Return(IF return_extra
                             THEN <<outmaps, count, returned_mask,
                                    extra_statistics(nside, ipix, count, bool_mask)>>
                             ELSE <<outmaps, count, returned_mask>>),
              frame |-> [func |-> "make_healpix_map", x |-> x, ipix |-> ipix,
                         bool_mask |-> bool_mask]]

(***************************************************************************)
(* Inputs of make_healpix_map                                              *)
(***************************************************************************)
SeqsOf(S, n) == [1..n -> S]
SeqsUpTo(S, n) == UNION {SeqsOf(S, k) : k \in 1..n}

\* right ascensions and declinations (degrees) of the catalogs
RaSet == {0, 150, 300}
DecSet == {0}
NSides == {1}
\* quantity values and weights
QVals == {F(3), F(5)}
WVals == {F(1), F(2)}

BoolMasks(n) == {Arr1("bool", d) : d \in SeqsOf(BOOLEAN, n)}

\* a row of N values as a 1-D array and as a 2-D array of one row
BothShapes(rows) == {Arr1("float", r) : r \in rows} \cup {Arr2("float", <<r>>) : r \in rows}

QuantityWeight(n) ==
    {<<None, None>>}
    \cup {<<q, None>> : q \in BothShapes({[i \in 1..n |-> F(1)]})}
    \cup (BothShapes(SeqsOf(QVals, n)) \X ({None} \cup BothShapes(SeqsOf(WVals, n))))

BinCall(ra, dec, quantity, nside, mask, weight, fill_UNSEEN, return_extra) ==
    [func |-> "make_healpix_map", ra |-> ra, dec |-> dec, quantity |-> quantity,
     nside |-> nside, mask |-> mask, weight |-> weight,
     fill_UNSEEN |-> fill_UNSEEN, return_extra |-> return_extra]

NoRet == [exc |-> "pending"]
NoArgs == [func |-> "none"]

InitBin ==
    /\ pc = "call"
    /\ \E ra \in SeqsUpTo(RaSet, MaxObj), d \in DecSet, nside \in NSides :
         \E qw \in QuantityWeight(Len(ra)),
            mask \in {None} \cup BoolMasks(nside2npix(nside)),
            fu \in BOOLEAN, re \in BOOLEAN :
           args = BinCall(Arr1("float", ra), Arr1("float", [i \in 1..Len(ra) |-> d]),
                          qw[1], nside, mask, qw[2], fu, re)
    /\ ret = NoRet
    /\ frame = NoFrame
    /\ stdout = <<>>
    /\ prev = NoArgs

MakeHealpixMap ==
    /\ pc = "call"
    /\ args.func = "make_healpix_map"
    /\ LET r == make_healpix_map(args.ra, args.dec, args.quantity, args.nside,
                                 args.mask, args.weight, args.fill_UNSEEN,
                                 args.return_extra)
       IN  /\ ret' = r.ret
           /\ frame' = r.frame
    /\ pc' = "done"
    /\ UNCHANGED <<args, stdout, prev>>

NextBin == MakeHealpixMap

SpecBin == InitBin /\ [][NextBin]_vars

(***************************************************************************)
(* Properties of make_healpix_map                                          *)
(***************************************************************************)
RECURSIVE SumIdx(_, _)
SumIdx(S, vals) ==
    IF S = {} THEN F(0)
    ELSE LET i == CHOOSE i \in S : TRUE IN FAdd(vals[i], SumIdx(S \ {i}, vals))

BinReturned == pc = "done" /\ args.func = "make_healpix_map" /\ ret.exc = "none"

NObj == Len(args.ra.data)
\* the objects of the catalog that fall in pixel p (p = 1 .. npix)
ObjectsIn(p) ==
    {i \in 1..NObj : ang2pix(args.nside, args.dec.data[i], args.ra.data[i]) = p - 1}
Pixels == 1..nside2npix(args.nside)
\* the mask used, read off the returned mask
InMask(p) == astype_bool(ret.value[3])[p]
ObjectsInMask == UNION {ObjectsIn(p) : p \in {q \in Pixels : InMask(q)}}
FillValue == IF args.fill_UNSEEN THEN UNSEEN ELSE F(0)
QuantityRows == atleast_2d(args.quantity).data
WeightRows ==
    IF IsNone(args.weight) THEN ones_like(atleast_2d(args.quantity)).data
    ELSE atleast_2d(args.weight).data
IsOnes(q) == ~IsNone(q) /\ \A k \in 1..Len(Flat(q)) : Flat(q)[k] = F(1)

\* C1 as stated: with fill_UNSEEN = False the count map sums to the number of
\* objects N, for a derived mask and for a caller-supplied mask alike.
C1_SumIsN ==
    (BinReturned /\ ~args.fill_UNSEEN) => FSum(ret.value[2]) = F(NObj)

\* C1 amended: with fill_UNSEEN = False the count map sums to the number of
\* objects whose pixel is in the mask used; that is N when the mask is derived
\* and when a supplied mask covers every object's pixel.
C1_SumIsObjectsInMask ==
    (BinReturned /\ ~args.fill_UNSEEN) =>
        /\ FSum(ret.value[2]) = F(Cardinality(ObjectsInMask))
        /\ (IsNone(args.mask) \/ \A p \in Pixels : ObjectsIn(p) # {} => InMask(p))
               => FSum(ret.value[2]) = F(NObj)

C1_Witness ==
    /\ BinReturned /\ ~args.fill_UNSEEN /\ ~IsNone(args.mask)
    /\ NObj = 2
    /\ \E p \in Pixels : InMask(p) /\ Cardinality(ObjectsIn(p)) = 1
    /\ \E p \in Pixels : ~InMask(p) /\ Cardinality(ObjectsIn(p)) = 1
    /\ FSum(ret.value[2]) = F(1)

\* C2 as stated: quantity all ones and weight None give a quantity map equal to
\* 1 at every pixel of the mask used, derived or supplied.
C2_OnesGiveOne ==
    (BinReturned /\ IsOnes(args.quantity) /\ IsNone(args.weight)) =>
        \A r \in 1..Len(ret.value[1]) : \A p \in Pixels :
            InMask(p) => ret.value[1][r][p] = F(1)

\* C2 amended: quantity all ones and weight None give a quantity map equal to 1
\* at every pixel of the mask used that holds at least one object (every pixel
\* of a derived mask); a masked pixel without objects holds NaN (0/0).
C2_OnesGiveOneWhereObjects ==
    (BinReturned /\ IsOnes(args.quantity) /\ IsNone(args.weight)) =>
        \A r \in 1..Len(ret.value[1]) : \A p \in Pixels :
            /\ (InMask(p) /\ ObjectsIn(p) # {}) => ret.value[1][r][p] = F(1)
            /\ (InMask(p) /\ ObjectsIn(p) = {}) => IsNaN(ret.value[1][r][p])
            /\ (InMask(p) /\ IsNone(args.mask)) => ObjectsIn(p) # {}

C2_Witness ==
    /\ BinReturned /\ IsOnes(args.quantity) /\ IsNone(args.weight)
    /\ ~IsNone(args.mask)
    /\ \E p \in Pixels : InMask(p) /\ Cardinality(ObjectsIn(p)) = 2
                         /\ ret.value[1][1][p] = F(1)
    /\ \E p \in Pixels : InMask(p) /\ ObjectsIn(p) = {} /\ IsNaN(ret.value[1][1][p])

\* C3 as stated: a 1-D quantity of length N with a weight of the identical
\* (1-D) shape and strictly positive entries is accepted, and each masked pixel
\* holds sum(quantity * weight) / sum(weight) over the objects in it.
C3_SameShapeWeightAccepted ==
    (/\ pc = "done" /\ args.func = "make_healpix_map"
     /\ ~IsNone(args.quantity) /\ ~IsNone(args.weight)
     /\ Len(args.quantity.shape) = 1
     /\ args.weight.shape = args.quantity.shape
     /\ \A k \in 1..Len(args.weight.data) : FGt(args.weight.data[k], F(0)))
    => /\ ret.exc = "none"
       /\ \A p \in Pixels :
            (InMask(p) /\ ObjectsIn(p) # {}) =>
                FMul(ret.value[1][1][p], SumIdx(ObjectsIn(p), args.weight.data))
                  = SumIdx(ObjectsIn(p),
                           [i \in 1..NObj |->
                               FMul(args.quantity.data[i], args.weight.data[i])])

\* C4: outside the mask used every returned map holds the fill value (0, or
\* UNSEEN with fill_UNSEEN); inside it the count is the number of objects of
\* that pixel and each quantity map the weighted mean over the objects of that
\* pixel alone; count_tot_in_mask is the number of objects inside the mask.
C4_OutsideMaskIsFill ==
    BinReturned =>
        /\ \A p \in Pixels :
             /\ ~InMask(p) => ret.value[2][p] = FillValue
             /\ InMask(p) => ret.value[2][p] = F(Cardinality(ObjectsIn(p)))
             /\ \A r \in 1..Len(ret.value[1]) :
                  /\ ~InMask(p) => ret.value[1][r][p] = FillValue
                  /\ (InMask(p) /\ ObjectsIn(p) # {}) =>
                       FMul(ret.value[1][r][p], SumIdx(ObjectsIn(p), WeightRows[r]))
                         = SumIdx(ObjectsIn(p),
                                  [i \in 1..NObj |->
                                      FMul(QuantityRows[r][i], WeightRows[r][i])])
        /\ args.return_extra =>
             ret.value[4].count_tot_in_mask = F(Cardinality(ObjectsInMask))

C4_Witness ==
    /\ BinReturned /\ args.fill_UNSEEN /\ args.return_extra
    /\ ~IsNone(args.mask) /\ ~IsNone(args.quantity)
    /\ \E p \in Pixels : ~InMask(p) /\ ObjectsIn(p) # {}
                         /\ ret.value[2][p] = UNSEEN /\ ret.value[1][1][p] = UNSEEN
    /\ \E p \in Pixels : InMask(p) /\ ObjectsIn(p) # {}
    /\ ret.value[4].count_tot_in_mask = F(1)

(***************************************************************************)
(* count2density                                                           *)
(***************************************************************************)
\* lines 156-157: avg_in_pixel, with the sums taken over the whole map
avg_in_pixel_unmasked_sums(count, mask_frac, msk) ==
    [p \in 1..Len(count) |->
        IF msk[p]
        THEN FDiv(FMul(mask_frac[p], FSum(count)), FSum(mask_frac))
        ELSE F(0)]

\* lines 156-157: avg_in_pixel[msk] = mask_frac[msk] * sum(count[msk]) / sum(mask_frac[msk])
avg_in_pixel(count, mask_frac, msk) ==
    [p \in 1..Len(count) |->
        IF msk[p]
        THEN FDiv(FMul(mask_frac[p], FSum(Select(count, msk))),
                  FSum(Select(mask_frac, msk)))
        ELSE F(0)]

\* line 161, one pixel: count / avg_in_pixel - 1.
excess_absolute(c, avg) == FSub(c, avg)

excess_relative(c, avg) == FSub(FDiv(c, avg), F(1))

\* lines 124-163
count2density(count, mask_frac, mask) ==
    LET npix == Len(count.data)
        mf == IF IsNone(mask_frac) THEN [p \in 1..npix |-> F(1)] ELSE mask_frac.data
        m == IF IsNone(mask) THEN Arr1("bool", [p \in 1..npix |-> TRUE]) ELSE mask
        msk == astype_bool(m)
        avg == avg_in_pixel(count.data, mf, msk)
        density == [p \in 1..npix |->
                       IF msk[p] THEN excess_relative(count.data[p], avg[p]) ELSE F(0)]
    IN  [ret |-> Return(density),
         frame |-> [func |-> "count2density", msk |-> msk, avg_in_pixel |-> avg]]

\* values of the count and completeness maps, and the rescaling factors
CountVals == {F(0), F(5), F(10)}
FracVals == {F(0), Rat(1, 2), F(1)}
Factors == {2, 3}

IntMasks(n) == {Arr1("int", d) : d \in SeqsOf({0, 1}, n)}
FloatArrays(vals, n) == {Arr1("float", d) : d \in SeqsOf(vals, n)}

C2DCall(count, mask_frac, mask) ==
    [func |-> "count2density", count |-> count, mask_frac |-> mask_frac, mask |-> mask]

\* the scenario count = [10, 0, 5, 0], mask = [T, F, T, F], completeness ones
ScenarioCall ==
    C2DCall(Arr1("float", <<F(10), F(0), F(5), F(0)>>),
            Arr1("float", <<F(1), F(1), F(1), F(1)>>),
            Arr1("bool", <<TRUE, FALSE, TRUE, FALSE>>))

InitC2D ==
    /\ pc = "call"
    /\ \/ \E n \in 1..MaxLen :
            \E count \in FloatArrays(CountVals, n),
               mask_frac \in {None} \cup FloatArrays(FracVals, n),
               mask \in {None} \cup BoolMasks(n) :
              args = C2DCall(count, mask_frac, mask)
       \/ args = ScenarioCall
    /\ ret = NoRet
    /\ frame = NoFrame
    /\ stdout = <<>>
    /\ prev = NoArgs

Count2density ==
    /\ pc = "call"
    /\ args.func = "count2density"
    /\ LET r == count2density(args.count, args.mask_frac, args.mask)
       IN  /\ ret' = r.ret
           /\ frame' = r.frame
    /\ pc' = "done"
    /\ UNCHANGED <<args, stdout, prev>>

\* a second call on the same maps with the counts inside the mask multiplied by k
Count2densityScaled ==
    /\ pc = "done"
    /\ args.func = "count2density"
    /\ \E k \in Factors :
         LET scaled == [args.count EXCEPT !.data =
                           [p \in 1..Len(args.count.data) |->
                               IF frame.msk[p] THEN FMul(F(k), args.count.data[p])
                               ELSE args.count.data[p]]]
             r == count2density(scaled, args.mask_frac, args.mask)
         IN  /\ prev' = [args |-> args, ret |-> ret, k |-> k]
             /\ args' = [args EXCEPT !.count = scaled]
             /\ ret' = r.ret
             /\ frame' = r.frame
    /\ pc' = "rescaled"
    /\ UNCHANGED stdout

NextC2D == Count2density \/ Count2densityScaled

SpecC2D == InitC2D /\ [][NextC2D]_vars

(***************************************************************************)
(* Properties of count2density                                             *)
(***************************************************************************)
C2DReturned == pc # "call" /\ args.func = "count2density" /\ ret.exc = "none"

C2DLen == Len(args.count.data)
\* the mask and the completeness a call works with, defaults included
Masked(p) == IsNone(args.mask) \/ astype_bool(args.mask)[p]
Completeness(p) == IF IsNone(args.mask_frac) THEN F(1) ELSE args.mask_frac.data[p]
MaskedPixels == {p \in 1..C2DLen : Masked(p)}
CountInMask == SumIdx(MaskedPixels, args.count.data)
CompletenessInMask == SumIdx(MaskedPixels, [p \in 1..C2DLen |-> Completeness(p)])

\* C5: with a nonzero completeness sum in the mask, the density of a masked
\* pixel p is count[p] / (completeness[p] * S / C) - 1 (non-finite where this
\* expression divides by zero) and that of an unmasked pixel is exactly 0; the
\* defaults are completeness one and mask true everywhere; the scenario
\* [10, 0, 5, 0] gives [1/3, 0, -1/3, 0].
C5_DensityFormula ==
    (C2DReturned /\ CompletenessInMask # F(0)) =>
        /\ \A p \in 1..C2DLen :
             /\ ~Masked(p) => ret.value[p] = F(0)
             /\ Masked(p) =>
                  IF FMul(Completeness(p), CountInMask) # F(0)
                  THEN /\ IsFinite(ret.value[p])
                       /\ FMul(FAdd(ret.value[p], F(1)),
                               FMul(Completeness(p), CountInMask))
                            = FMul(args.count.data[p], CompletenessInMask)
                  ELSE ~IsFinite(ret.value[p])
        /\ args = ScenarioCall =>
             ret.value = <<Rat(1, 3), F(0), Rat(-1, 3), F(0)>>

C5_Witness ==
    /\ pc = "done" /\ args = ScenarioCall
    /\ ret.exc = "none" /\ ret.value[1] = Rat(1, 3) /\ ret.value[3] = Rat(-1, 3)

\* C6: multiplying the counts inside the mask by a positive constant, with the
\* completeness and the mask unchanged, leaves every pixel of the density map
\* as it was.
C6_ScaleInvariant ==
    (pc = "rescaled" /\ args.func = "count2density") => ret = prev.ret

C6_Witness ==
    /\ pc = "rescaled" /\ prev.k = 3
    /\ ~IsNone(args.mask_frac) /\ ~IsNone(args.mask)
    /\ \E p, q \in 1..C2DLen :
         /\ Masked(p) /\ Masked(q)
         /\ args.mask_frac.data[p] # args.mask_frac.data[q]
         /\ IsFinite(ret.value[p]) /\ IsFinite(ret.value[q])
         /\ ret.value[p] # F(0) /\ ret.value[q] # F(0)
    /\ \E p \in 1..C2DLen : ~Masked(p) /\ args.count.data[p] # F(0)
    /\ ret = prev.ret

\* C7 as stated: when the mask selects no pixel or the completeness sums to
\* zero over the mask, count2density raises an error or returns 0 everywhere;
\* it never returns NaN or an infinity in any pixel.
C7_ZeroDenominatorGuarded ==
    (/\ pc = "done" /\ args.func = "count2density"
     /\ (MaskedPixels = {} \/ CompletenessInMask = F(0)))
    => \/ ret.exc # "none"
       \/ \A p \in 1..C2DLen : ret.value[p] = F(0)

(***************************************************************************)
(* density2count                                                           *)
(***************************************************************************)
\* hp.npix2nside: the nside of a map of npix pixels, 0 when there is none
\* (healpy raises ValueError)
npix2nside(npix) ==
    IF \E n \in 1..npix : nside2npix(n) = npix
    THEN CHOOSE n \in 1..npix : nside2npix(n) = npix
    ELSE 0

\* line 192, densitymap[mask]: a boolean mask selects, an integer array is a
\* list of positions, any other dtype is no index
IndexOk(arr, m) ==
    IF m.dtype = "bool" THEN Len(m.data) = Len(arr)
    ELSE IF m.dtype = "int" THEN \A i \in 1..Len(m.data) : m.data[i] < Len(arr)
    ELSE FALSE

Index(arr, m) ==
    IF m.dtype = "bool" THEN Select(arr, m.data)
    ELSE [i \in 1..Len(m.data) |-> arr[m.data[i] + 1]]

\* line 200: np.clip(v, lo, hi)
clip(v, lo, hi) == IF FLt(v, lo) THEN lo ELSE IF FGt(v, hi) THEN hi ELSE v

\* line 201: onepdelta[np.logical_not(mask.astype(bool))] = 0.
zero_outside_mask_skipped(onepdelta, m) == onepdelta

zero_outside_mask(onepdelta, m) ==
    [p \in 1..Len(onepdelta) |-> IF astype_bool(m)[p] THEN onepdelta[p] ELSE F(0)]

\* lines 166-203: density2count up to the draw; the result is [ret, frame, out]
\* where ret is an exception or Return of the rates lamb given to the draw,
\* and out is what was printed
density2count(densitymap, nbar, mask, completeness, pixel) ==
    LET n == Len(densitymap.data)
        m == IF IsNone(mask) THEN Arr1("bool", [p \in 1..n |-> TRUE]) ELSE mask
        c == IF IsNone(completeness) THEN astype_float(m) ELSE completeness.data
        picked == Index(densitymap.data, m)
        out == IF \E i \in 1..Len(picked) : FLt(picked[i], F(-1))
               THEN <<"[density2count] The density map has pixels below -1, will be clipped.">>
               ELSE <<>>
        nbarpix == IF pixel THEN nbar
                   ELSE FMul(nbar, nside2pixarea(nside2npix(npix2nside(n)), FALSE))
        onepdelta == zero_outside_mask(
                         [p \in 1..n |-> clip(FAdd(F(1), densitymap.data[p]), F(0), PosInf)],
                         m)
        lamb == [p \in 1..n |-> FMul(FMul(nbarpix, onepdelta[p]), c[p])]
    IN  IF ~IndexOk(densitymap.data, m)
        THEN [ret |-> Raise("IndexError", "densitymap[mask]"), frame |-> NoFrame,
              out |-> <<>>]
        ELSE IF ~pixel /\ npix2nside(n) = 0
        THEN [ret |-> Raise("ValueError", "Wrong pixel number"), frame |-> NoFrame,
              out |-> out]
        ELSE IF \E p \in 1..n : IsNaN(lamb[p]) \/ FLt(lamb[p], F(0))
        THEN [ret |-> Raise("ValueError", "lam < 0 or lam is NaN"), frame |-> NoFrame,
              out |-> out]
        ELSE [ret |-> Return(lamb),
              frame |-> [func |-> "density2count", nbarpix |-> nbarpix, lamb |-> lamb],
              out |-> out]

\* line 205, np.random.poisson(lamb): the samples a draw can return; a rate
\* of 0 gives 0, a positive rate any count (up to MaxDraw in the model)
RECURSIVE poisson(_)
poisson(lamb) ==
    IF lamb = <<>> THEN {<<>>}
    ELSE LET n == Len(lamb)
         IN  {Append(s, k) : s \in poisson(SubSeq(lamb, 1, n - 1)),
                             k \in IF lamb[n] = F(0) THEN {0} ELSE 0..MaxDraw}

DensityVals == {F(-2), F(-1), F(0)}
RateFracs == {Rat(1, 2), F(1)}
NBars == {F(2)}

D2CCall(densitymap, nbar, mask, completeness, pixel) ==
    [func |-> "density2count", densitymap |-> densitymap, nbar |-> nbar,
     mask |-> mask, completeness |-> completeness, pixel |-> pixel]

InitD2C ==
    /\ pc = "call"
    /\ \E n \in 1..MaxMap :
         \E densitymap \in FloatArrays(DensityVals, n), nbar \in NBars,
            completeness \in {None} \cup FloatArrays(RateFracs, n),
            pixel \in BOOLEAN :
           \/ \E mask \in IntMasks(n) :
                args = D2CCall(densitymap, nbar, mask, completeness, pixel)
           \/ \E mask \in {None} \cup BoolMasks(n) \cup FloatArrays({F(0), F(1)}, n) :
                args = D2CCall(densitymap, nbar, mask, completeness, pixel)
    /\ ret = NoRet
    /\ frame = NoFrame
    /\ stdout = <<>>
    /\ prev = NoArgs

Density2count ==
    /\ pc = "call"
    /\ args.func = "density2count"
    /\ LET r == density2count(args.densitymap, args.nbar, args.mask,
                                    args.completeness, args.pixel)
       IN  /\ stdout' = stdout \o r.out
           /\ frame' = r.frame
           /\ IF r.ret.exc # "none" THEN ret' = r.ret
              ELSE \E sample \in poisson(r.ret.value) : ret' = Return(sample)
    /\ pc' = "done"
    /\ UNCHANGED <<args, prev>>

NextD2C == Density2count

SpecD2C == InitD2C /\ [][NextD2C]_vars

(***************************************************************************)
(* Properties of density2count                                             *)
(***************************************************************************)
D2CEnded == pc = "done" /\ args.func = "density2count"
D2CLen == Len(args.densitymap.data)
SampleMasked(p) == IsNone(args.mask) \/ astype_bool(args.mask)[p]
SampleCompleteness(p) ==
    IF ~IsNone(args.completeness) THEN args.completeness.data[p]
    ELSE IF SampleMasked(p) THEN F(1) ELSE F(0)
NbarPerPixel ==
    IF args.pixel THEN args.nbar
    ELSE FMul(args.nbar, nside2pixarea(D2CLen, FALSE))

\* C8: when density2count returns, the rate of a masked pixel p is
\* nbar_per_pixel * max(0, 1 + density[p]) * completeness[p] and that of an
\* unmasked pixel is 0 whatever the completeness; no rate is negative, a
\* density of -1 or below gives rate 0, and the count returned outside the
\* mask is 0.
C8_RateClippedAndMasked ==
    (D2CEnded /\ ret.exc = "none") =>
        \A p \in 1..D2CLen :
            LET d == args.densitymap.data[p] IN
            /\ ~FLt(frame.lamb[p], F(0))
            /\ SampleMasked(p) =>
                 /\ frame.lamb[p] =
                      FMul(NbarPerPixel,
                           FMul(IF FLt(FAdd(F(1), d), F(0)) THEN F(0) ELSE FAdd(F(1), d),
                                SampleCompleteness(p)))
                 /\ (d = F(-1) \/ FLt(d, F(-1))) => frame.lamb[p] = F(0)
            /\ ~SampleMasked(p) => (frame.lamb[p] = F(0) /\ ret.value[p] = 0)

C8_Witness ==
    /\ D2CEnded /\ ret.exc = "none" /\ ~IsNone(args.completeness) /\ ~args.pixel
    /\ \E p, q, r \in 1..D2CLen :
         /\ SampleMasked(p) /\ args.densitymap.data[p] = F(-2)
         /\ args.completeness.data[p] = F(1) /\ frame.lamb[p] = F(0)
         /\ SampleMasked(q) /\ args.densitymap.data[q] = F(0)
         /\ args.completeness.data[q] = Rat(1, 2) /\ ret.value[q] = 1
         /\ FGt(frame.lamb[q], F(0))
         /\ ~SampleMasked(r) /\ args.densitymap.data[r] = F(0)
         /\ args.completeness.data[r] = F(1) /\ frame.lamb[r] = F(0)

\* C9 as stated: density2count prints its clipping warning exactly when some
\* value of the input density map is below -1, at any pixel and for a mask
\* given as booleans or as a 0/1 map, and returns a sample in both cases.
C9_WarnsIffBelowMinusOne ==
    (D2CEnded /\ (args.pixel \/ npix2nside(D2CLen) # 0)) =>
        /\ ret.exc = "none"
        /\ (stdout # <<>>) <=>
             \E p \in 1..D2CLen : FLt(args.densitymap.data[p], F(-1))

(***************************************************************************)
(* overdensity                                                             *)
(***************************************************************************)
\* the names bound at module level in deltag.py (lines 8-208)
ModuleGlobals ==
    {"np", "hp", "get_catalog", "make_healpix_map", "count2density",
     "density2count", "overdensity"}

\* lines 208-215; the result is [ret, frame]
overdensity(ras, decs, mask_frac, nside) ==
    LET binary_mask ==
            Arr1("bool", [p \in 1..Len(mask_frac.data) |-> mask_frac.data[p] = F(0)])
        scope == [ras |-> ras, decs |-> decs, mask_frac |-> mask_frac,
                  nside |-> nside, binary_mask |-> binary_mask]
        frame_ == [func |-> "overdensity", binary_mask |-> binary_mask]
    IN  IF "quantity" \notin (DOMAIN scope \cup ModuleGlobals)
        THEN [ret |-> Raise("NameError", "name 'quantity' is not defined"),
              frame |-> frame_]
        ELSE LET binned == make_healpix_map(ras, decs, scope["quantity"], nside,
                                            binary_mask, None, FALSE, FALSE)
             IN  IF binned.ret.exc # "none"
                 THEN [ret |-> binned.ret, frame |-> frame_]
                 ELSE [ret |-> count2density(Arr1("float", binned.ret.value[2]),
                                             mask_frac, binary_mask).ret,
                       frame |-> frame_]

OverCall(ras, decs, mask_frac, nside) ==
    [func |-> "overdensity", ras |-> ras, decs |-> decs, mask_frac |-> mask_frac,
     nside |-> nside]

InitOver ==
    /\ pc = "call"
    /\ \E ra \in SeqsUpTo(RaSet, MaxObj), d \in DecSet, nside \in NSides :
         \E mask_frac \in FloatArrays(FracVals, nside2npix(nside)) :
           args = OverCall(Arr1("float", ra), Arr1("float", [i \in 1..Len(ra) |-> d]),
                           mask_frac, nside)
    /\ ret = NoRet
    /\ frame = NoFrame
    /\ stdout = <<>>
    /\ prev = NoArgs

Overdensity ==
    /\ pc = "call"
    /\ args.func = "overdensity"
    /\ LET r == overdensity(args.ras, args.decs, args.mask_frac, args.nside)
       IN  /\ ret' = r.ret
           /\ frame' = r.frame
    /\ pc' = "done"
    /\ UNCHANGED <<args, stdout, prev>>

NextOver == Overdensity

SpecOver == InitOver /\ [][NextOver]_vars

\* C10 as stated: overdensity completes and returns count2density of the count
\* map that make_healpix_map gives for the catalog in counting-only mode with
\* the mask B = (mask_frac == 0), with mask_frac as completeness and B as mask.
C10_OverdensityComposes ==
    (pc = "done" /\ args.func = "overdensity") =>
        LET B == Arr1("bool", [p \in 1..Len(args.mask_frac.data) |->
                                  args.mask_frac.data[p] = F(0)])
            binned == make_healpix_map(args.ras, args.decs, None, args.nside, B,
                                       None, FALSE, FALSE).ret
        IN  /\ ret.exc = "none"
            /\ ret = count2density(Arr1("float", binned.value[2]),
                                   args.mask_frac, B).ret

(***************************************************************************)
(* One call of any of the four functions                                   *)
(***************************************************************************)
Init == InitBin \/ InitC2D \/ InitD2C \/ InitOver

Next == MakeHealpixMap \/ Count2density \/ Count2densityScaled \/ Density2count \/ Overdensity

Spec == Init /\ [][Next]_vars

====
